---- MODULE Spec2Model ----
(***************************************************************************)
(* Clinical code tree, range index and clinical code store of hbr_models.  *)
(*                                                                         *)
(* Strings are sequences of one-character strings; their order is the      *)
(* byte order Rust's String comparison uses.  The repository holds two     *)
(* versions of clinical_code_tree/index.rs (rust_hic and rust_hbr); the    *)
(* variable index_rs says which one the tree is built against.             *)
(***************************************************************************)
EXTENDS Integers, Sequences, FiniteSets, TLC

VARIABLES
    index_rs,    \* which index.rs the crate is built with: "rust_hic" or "rust_hbr"
    pc,          \* "start" (nothing read yet), "built" (tree available), "aborted" (a panic unwound)
    reader,      \* the deserialized content of the byte source given to from_reader
    tree,        \* the ClinicalCodeTree: [categories, groups]
    store,       \* ClinicalCodeStore.ids_to_codes: a set of [id, code] pairs (a BiMap)
    history,     \* history: the distinct codes passed to clinical_code_ref_from with the reference
                 \* first returned for each, in order of first call
    last,        \* the last call made and what it returned
    calls,       \* history: the number of calls made so far
    runs         \* two runs of a sampling program side by side (seeded_rng.rs): for each
                 \* run its (global_seed, id), the message hashed, the generator, its
                 \* store and the references drawn; empty where no generator is made

vars == <<index_rs, pc, reader, tree, store, history, last, calls, runs>>

(***************************************************************************)
(* Bounds of the model.                                                    *)
(***************************************************************************)
MaxCalls == 2

\* The number of draws each of the two runs makes from its generator.
MaxDraws == 2

\* The length of the longest string of all strings handed to normalise_code.
MaxLen == 3

(***************************************************************************)
(* Strings.                                                                *)
(***************************************************************************)
\* The byte value of a character (ASCII), which is what String::cmp compares.
byte(c) ==
    CASE c = "\t" -> 9 [] c = " " -> 32 [] c = "." -> 46
      [] c = "0" -> 48 [] c = "1" -> 49 [] c = "2" -> 50 [] c = "3" -> 51
      [] c = "4" -> 52 [] c = "5" -> 53 [] c = "6" -> 54 [] c = "7" -> 55 [] c = "8" -> 56
      [] c = "9" -> 57
      [] c = "A" -> 65 [] c = "B" -> 66 [] c = "C" -> 67 [] c = "H" -> 72 [] c = "I" -> 73
      [] c = "X" -> 88 [] c = "Z" -> 90
      [] c = "a" -> 97 [] c = "b" -> 98 [] c = "c" -> 99 [] c = "h" -> 104 [] c = "i" -> 105
      [] c = "x" -> 120 [] c = "z" -> 122
      [] c = "|" -> 124

upper_char(c) ==
    CASE c = "a" -> "A" [] c = "b" -> "B" [] c = "c" -> "C" [] c = "h" -> "H" [] c = "i" -> "I"
      [] c = "x" -> "X" [] c = "z" -> "Z"
      [] OTHER -> c

lower_char(c) ==
    CASE c = "A" -> "a" [] c = "B" -> "b" [] c = "C" -> "c" [] c = "H" -> "h" [] c = "I" -> "i"
      [] c = "X" -> "x" [] c = "Z" -> "z"
      [] OTHER -> c

to_ascii_uppercase(s) == [i \in 1..Len(s) |-> upper_char(s[i])]

to_lowercase(s) == [i \in 1..Len(s) |-> lower_char(s[i])]

SetMin(S) == CHOOSE x \in S : \A y \in S : x <= y

\* Ord for String: lexicographic on bytes, a proper prefix sorts first.
str_cmp(s, t) ==
    LET n == IF Len(s) < Len(t) THEN Len(s) ELSE Len(t)
        diffs == {i \in 1..n : s[i] # t[i]}
    IN  IF diffs = {}
        THEN IF Len(s) < Len(t) THEN "Less"
             ELSE IF Len(s) > Len(t) THEN "Greater" ELSE "Equal"
        ELSE IF byte(s[SetMin(diffs)]) < byte(t[SetMin(diffs)]) THEN "Less" ELSE "Greater"

str_lt(s, t) == str_cmp(s, t) = "Less"
str_le(s, t) == str_cmp(s, t) # "Greater"

\* code[..n]: the caller checks n <= Len(code) (the slice panics otherwise).
truncate(code, n) == SubSeq(code, 1, n)

(***************************************************************************)
(* Index (clinical_code_tree/index.rs).  variant "Single" is Leaf/Single,  *)
(* "Dual" is Category/Dual; b is unused (empty) for a Single index.        *)
(***************************************************************************)
make_single(start) == [variant |-> "Single", a |-> start, b |-> <<>>]

make_dual(start, end) == [variant |-> "Dual", a |-> start, b |-> end]

\* #[derive(PartialOrd, Ord)] on the enum: the variant order first (the first
\* declared variant sorts first), then the fields in order.
index_cmp(i1, i2) ==
    IF i1.variant # i2.variant
    THEN IF i1.variant = "Single" THEN "Less" ELSE "Greater"
    ELSE IF str_cmp(i1.a, i2.a) # "Equal" THEN str_cmp(i1.a, i2.a)
         ELSE str_cmp(i1.b, i2.b)

\* Index::compare of rust_hic/src/clinical_code_tree/index.rs.
compare_rust_hic(index, code_in) ==
    LET code == to_ascii_uppercase(code_in)
    IN  IF index.variant = "Single"
        THEN str_cmp(code, index.a)
        ELSE IF str_cmp(code, index.a) = "Less" THEN "Less"
             ELSE IF Len(code) < Len(index.b) THEN "Panic"
             ELSE IF str_cmp(truncate(code, Len(index.b)), index.b) = "Greater"
                  THEN "Greater"
                  ELSE "Equal"

\* compare_rust_hbr with the end of a range left out of the range.
compare_rust_hbr_open_end(index, code_in) ==
    LET code == to_ascii_uppercase(code_in)
    IN  IF Len(code) < Len(index.a) THEN "Panic"
        ELSE LET c_prime == truncate(code, Len(index.a))
             IN  IF index.variant = "Single"
                 THEN IF c_prime = index.a THEN "Equal"
                      ELSE IF str_lt(c_prime, index.a) THEN "Greater" ELSE "Less"
                 ELSE IF str_le(index.a, c_prime) /\ str_lt(c_prime, index.b) THEN "Equal"
                      ELSE IF str_lt(c_prime, index.a) THEN "Greater" ELSE "Less"

\* Index::compare of rust_hbr/src/clinical_code_tree/index.rs.
compare_rust_hbr(index, code_in) ==
    LET code == to_ascii_uppercase(code_in)
    IN  IF Len(code) < Len(index.a) THEN "Panic"
        ELSE LET c_prime == truncate(code, Len(index.a))
             IN  IF index.variant = "Single"
                 THEN IF c_prime = index.a THEN "Equal"
                      ELSE IF str_lt(c_prime, index.a) THEN "Greater" ELSE "Less"
                 ELSE IF str_le(index.a, c_prime) /\ str_le(c_prime, index.b) THEN "Equal"
                      ELSE IF str_lt(c_prime, index.a) THEN "Greater" ELSE "Less"

\* cat.index().compare(code), with the index.rs the crate is built with.
compare(index, code) ==
    IF index_rs = "rust_hic" THEN compare_rust_hic(index, code)
                             ELSE compare_rust_hbr(index, code)

(***************************************************************************)
(* ClinicalCode and ClinicalCodeStore (clinical_code.rs).                   *)
(* A store value cs is [ids_to_codes, first_seen]: the BiMap, and the      *)
(* history of distinct codes handed to clinical_code_ref_from.             *)
(***************************************************************************)
ClinicalCode_new(name, docs) == [name |-> name, docs |-> docs]

ClinicalCode_from(category) == ClinicalCode_new(category.name, category.docs)

ClinicalCodeStore_new == [ids_to_codes |-> {}, first_seen |-> <<>>]

\* BiMap::get_by_right: the pairs holding this right value (at most one).
get_by_right(ids_to_codes, clinical_code) == {p \in ids_to_codes : p.code = clinical_code}

\* BiMap::get_by_left
get_by_left(ids_to_codes, id) == {p \in ids_to_codes : p.id = id}

\* BiMap::insert: a pair with the same left or the same right value is overwritten.
bimap_insert(ids_to_codes, id, clinical_code) ==
    {p \in ids_to_codes : p.id # id /\ p.code # clinical_code}
        \cup {[id |-> id, code |-> clinical_code]}

\* Mutant: the next id counted from one.
num_stored_codes_from_one(ids_to_codes) == Cardinality(ids_to_codes) + 1

num_stored_codes(ids_to_codes) == Cardinality(ids_to_codes)

\* The history kept with the store: each distinct code handed to
\* clinical_code_ref_from, with the reference its first call returned.
Seen(first_seen, clinical_code) ==
    \E i \in 1..Len(first_seen) : first_seen[i].code = clinical_code

Note(first_seen, clinical_code, ref) ==
    IF Seen(first_seen, clinical_code) THEN first_seen
    ELSE Append(first_seen, [code |-> clinical_code, ref |-> ref])

\* Mutant: a code already stored gets a fresh reference instead of its own.
clinical_code_ref_from_fresh_ref(cs, clinical_code) ==
    LET next_id == Cardinality(cs.ids_to_codes)
    IN  IF get_by_right(cs.ids_to_codes, clinical_code) # {}
        THEN [ref |-> next_id,
              cs |-> [ids_to_codes |-> cs.ids_to_codes,
                      first_seen |-> Note(cs.first_seen, clinical_code, next_id)]]
        ELSE [ref |-> next_id,
              cs |-> [ids_to_codes |-> bimap_insert(cs.ids_to_codes, next_id, clinical_code),
                      first_seen |-> Note(cs.first_seen, clinical_code, next_id)]]

\* Mutant: no lookup before the insert, so a stored code is inserted again.
clinical_code_ref_from_no_lookup(cs, clinical_code) ==
    LET next_id == Cardinality(cs.ids_to_codes)
    IN  [ref |-> next_id,
         cs |-> [ids_to_codes |-> bimap_insert(cs.ids_to_codes, next_id, clinical_code),
                 first_seen |-> Note(cs.first_seen, clinical_code, next_id)]]

\* Returns [ref, cs]: the reference and the store after the call.
clinical_code_ref_from(cs, clinical_code) ==
    LET found == get_by_right(cs.ids_to_codes, clinical_code)
    IN  IF found # {}
        THEN LET id == (CHOOSE p \in found : TRUE).id
             IN  [ref |-> id,
                  cs |-> [ids_to_codes |-> cs.ids_to_codes,
                          first_seen |-> Note(cs.first_seen, clinical_code, id)]]
        ELSE LET next_id == num_stored_codes(cs.ids_to_codes)
             IN  [ref |-> next_id,
                  cs |-> [ids_to_codes |-> bimap_insert(cs.ids_to_codes, next_id, clinical_code),
                          first_seen |-> Note(cs.first_seen, clinical_code, next_id)]]

\* Mutant: the id taken as one-based.
clinical_code_from_one_based(ids_to_codes, id) ==
    LET found == get_by_left(ids_to_codes, id - 1)
    IN  IF found = {} THEN [some |-> FALSE, val |-> ClinicalCode_new(<<>>, "")]
        ELSE [some |-> TRUE, val |-> (CHOOSE p \in found : TRUE).code]

\* Option<&ClinicalCode>: [some, val]
clinical_code_from(ids_to_codes, id) ==
    LET found == get_by_left(ids_to_codes, id)
    IN  IF found = {} THEN [some |-> FALSE, val |-> ClinicalCode_new(<<>>, "")]
        ELSE [some |-> TRUE, val |-> (CHOOSE p \in found : TRUE).code]

(***************************************************************************)
(* Categories (clinical_code_tree.rs).  categories and exclude are Options: *)
(* [some, val].                                                            *)
(***************************************************************************)
None_categories == [some |-> FALSE, val |-> <<>>]
None_exclude == [some |-> FALSE, val |-> {}]

leaf(name, docs, index, excl) ==
    [name |-> name, docs |-> docs, index |-> index,
     categories |-> None_categories,
     exclude |-> IF excl = {} THEN None_exclude ELSE [some |-> TRUE, val |-> excl]]

category(name, docs, index, cats, excl) ==
    [name |-> name, docs |-> docs, index |-> index,
     categories |-> [some |-> TRUE, val |-> cats],
     exclude |-> IF excl = {} THEN None_exclude ELSE [some |-> TRUE, val |-> excl]]

is_leaf(cat) == ~cat.categories.some

\* Mutant: only a leaf's own exclude set counts.
exclude_of_leaf_only(cat) ==
    IF cat.exclude.some /\ ~cat.categories.some THEN cat.exclude.val ELSE {}

exclude(cat) == IF cat.exclude.some THEN cat.exclude.val ELSE {}

\* Vec::sort_by is a stable sort: x goes after every element that does not
\* compare Greater than it.
RECURSIVE insert_sorted(_, _)
insert_sorted(sorted, x) ==
    IF sorted = <<>> THEN <<x>>
    ELSE IF index_cmp(sorted[Len(sorted)].index, x.index) = "Greater"
         THEN Append(insert_sorted(SubSeq(sorted, 1, Len(sorted) - 1), x), sorted[Len(sorted)])
         ELSE Append(sorted, x)

RECURSIVE sort_by_index(_)
\* sort_by_index that moves the last element only.
sort_by_index_last_only(cats) ==
    IF cats = <<>> THEN <<>>
    ELSE insert_sorted(SubSeq(cats, 1, Len(cats) - 1), cats[Len(cats)])

sort_by_index(cats) ==
    IF cats = <<>> THEN <<>>
    ELSE insert_sorted(sort_by_index(SubSeq(cats, 1, Len(cats) - 1)), cats[Len(cats)])

RECURSIVE sort_categories_list_in_place(_)
\* sort_categories that leaves the lists below a node as they were read.
sort_categories_not_below(cat) == cat

sort_categories(cat) ==
    IF cat.categories.some
    THEN [cat EXCEPT !.categories.val = sort_categories_list_in_place(cat.categories.val)]
    ELSE cat

sort_categories_list_in_place(categories) ==
    LET sorted == sort_by_index(categories)
    IN  [i \in 1..Len(sorted) |-> sort_categories(sorted[i])]

\* char::is_whitespace, which split_whitespace splits at.
is_whitespace(c) == c \in {" ", "\t"}

\* str::trim: without the leading and the trailing whitespace.
RECURSIVE trim(_)
trim(s) ==
    IF s = <<>> THEN <<>>
    ELSE IF is_whitespace(s[1]) THEN trim(Tail(s))
    ELSE IF is_whitespace(s[Len(s)]) THEN trim(SubSeq(s, 1, Len(s) - 1))
    ELSE s

\* normalise_code that trims the ends instead of splitting at whitespace.
normalise_code_trimmed(code) ==
    LET lower == to_lowercase(code)
        no_dots == SelectSeq(lower, LAMBDA c : c # ".")
    IN  trim(no_dots)

normalise_code(code) ==
    LET lower == to_lowercase(code)
        no_dots == SelectSeq(lower, LAMBDA c : c # ".")
    IN  SelectSeq(no_dots, LAMBDA c : ~is_whitespace(c))

(***************************************************************************)
(* Tree queries (clinical_code_tree.rs).                                   *)
(***************************************************************************)
\* Returns [refs, cs]: the references pushed, and the store after the walk.
RECURSIVE get_codes_in_group(_, _, _)
RECURSIVE get_codes_in_group_loop(_, _, _, _, _)
get_codes_in_group_loop(group, categories, i, codes_in_group, cs) ==
    IF i > Len(categories) THEN [refs |-> codes_in_group, cs |-> cs]
    ELSE LET cat == categories[i]
         IN  IF group \in exclude(cat)
             THEN get_codes_in_group_loop(group, categories, i + 1, codes_in_group, cs)
             ELSE IF is_leaf(cat) /\ ~(group \in exclude(cat))
                  THEN LET r == clinical_code_ref_from(cs, ClinicalCode_from(cat))
                       IN  get_codes_in_group_loop(group, categories, i + 1,
                                                   Append(codes_in_group, r.ref), r.cs)
                  ELSE LET new_codes == get_codes_in_group(group, cat.categories.val, cs)
                       IN  get_codes_in_group_loop(group, categories, i + 1,
                                                   codes_in_group \o new_codes.refs, new_codes.cs)

\* Mutant: the codes of a list come out in the opposite order.
get_codes_in_group_reversed(group, categories, cs) ==
    LET got == get_codes_in_group_loop(group, categories, 1, <<>>, cs)
    IN  [refs |-> [i \in 1..Len(got.refs) |-> got.refs[Len(got.refs) + 1 - i]], cs |-> got.cs]

get_codes_in_group(group, categories, cs) ==
    get_codes_in_group_loop(group, categories, 1, <<>>, cs)

\* slice::binary_search_by with the comparator compare_code_with_category;
\* left and right are 0-based as in the standard library's loop.
RECURSIVE binary_search_by(_, _, _, _)
binary_search_by(categories, code, left, right) ==
    IF left >= right THEN [kind |-> "Err", pos |-> left]
    ELSE LET mid == left + ((right - left) \div 2)
             cmp == compare(categories[mid + 1].index, code)
         IN  CASE cmp = "Panic" -> [kind |-> "Panic", pos |-> mid]
               [] cmp = "Less" -> binary_search_by(categories, code, mid + 1, right)
               [] cmp = "Greater" -> binary_search_by(categories, code, left, mid)
               [] OTHER -> [kind |-> "Ok", pos |-> mid]

\* Returns [kind, pos]: kind "Ok" with the 1-based position of the category found,
\* "Err" (not found) or "Panic".
locate_code_in_categories(code, categories) ==
    LET found == binary_search_by(categories, code, 0, Len(categories))
    IN  [kind |-> found.kind, pos |-> found.pos + 1]

\* Returns [kind, ref, cs].
RECURSIVE locate_code_in_tree(_, _, _)
locate_code_in_tree(code, categories, cs) ==
    LET found == locate_code_in_categories(code, categories)
    IN  IF found.kind = "Ok"
        THEN LET cat == categories[found.pos]
             IN  IF ~is_leaf(cat)
                 THEN locate_code_in_tree(code, cat.categories.val, cs)
                 ELSE LET r == clinical_code_ref_from(cs, ClinicalCode_from(cat))
                      IN  [kind |-> "Ok", ref |-> r.ref, cs |-> r.cs]
        ELSE IF found.kind = "Panic"
             THEN [kind |-> "Panic", ref |-> 0, cs |-> cs]
             ELSE [kind |-> "Err", ref |-> 0, cs |-> cs]

\* A generator is the sequence of numbers it will yield; choose(rng) takes the
\* next one modulo the length.  Returns [kind, pos, rng].
\* pick_subcategory_uniform_random that never picks the last of several sub-categories.
pick_subcategory_uniform_random_not_last(categories, rng) ==
    IF Len(categories) = 0 THEN [kind |-> "Err", pos |-> 0, rng |-> rng]
    ELSE IF Len(categories) = 1 THEN [kind |-> "Ok", pos |-> 1, rng |-> Tail(rng)]
    ELSE [kind |-> "Ok", pos |-> (Head(rng) % (Len(categories) - 1)) + 1, rng |-> Tail(rng)]

pick_subcategory_uniform_random(categories, rng) ==
    IF Len(categories) = 0 THEN [kind |-> "Err", pos |-> 0, rng |-> rng]
    ELSE [kind |-> "Ok", pos |-> (Head(rng) % Len(categories)) + 1, rng |-> Tail(rng)]

\* Categories::random_clinical_code.  Returns [kind, code, rng] (rng: the draws not
\* consumed); "Panic" is a failed expect.
RECURSIVE Categories_random_clinical_code(_, _)
\* Categories::random_clinical_code that returns the node it is called on.
Categories_random_clinical_code_no_descent(cat, rng) ==
    [kind |-> "Ok", code |-> ClinicalCode_from(cat), rng |-> rng]

Categories_random_clinical_code(cat, rng) ==
    IF is_leaf(cat) THEN [kind |-> "Ok", code |-> ClinicalCode_from(cat), rng |-> rng]
    ELSE LET choice == pick_subcategory_uniform_random(cat.categories.val, rng)
         IN  IF choice.kind = "Err"
             THEN [kind |-> "Panic", code |-> ClinicalCode_new(<<>>, ""), rng |-> choice.rng]
             ELSE Categories_random_clinical_code(cat.categories.val[choice.pos], choice.rng)

(***************************************************************************)
(* impl ClinicalCodeTree.  t is the tree, cs the store.                    *)
(***************************************************************************)
from_reader(content) ==
    [categories |-> sort_categories_list_in_place(content.categories),
     groups |-> content.groups]

\* Returns [kind, ref, cs, rng] (rng: the draws not consumed).
random_clinical_code(t, rng, cs) ==
    LET choice == pick_subcategory_uniform_random(t.categories, rng)
    IN  IF choice.kind = "Err" THEN [kind |-> "Panic", ref |-> 0, cs |-> cs, rng |-> choice.rng]
        ELSE LET drawn == Categories_random_clinical_code(t.categories[choice.pos], choice.rng)
             IN  IF drawn.kind = "Panic"
                 THEN [kind |-> "Panic", ref |-> 0, cs |-> cs, rng |-> drawn.rng]
                 ELSE LET r == clinical_code_ref_from(cs, drawn.code)
                      IN  [kind |-> "Ok", ref |-> r.ref, cs |-> r.cs, rng |-> drawn.rng]

\* Mutant: the group is not looked up in the declared groups.
codes_in_group_unchecked(t, group, cs) ==
    LET got == get_codes_in_group(group, t.categories, cs)
    IN  [kind |-> "Ok", refs |-> got.refs, cs |-> got.cs]

\* codes_in_group that returns every reference once.
codes_in_group_distinct(t, group, cs) ==
    IF ~(group \in t.groups) THEN [kind |-> "Err", refs |-> <<>>, cs |-> cs]
    ELSE LET got == get_codes_in_group(group, t.categories, cs)
             first == {i \in 1..Len(got.refs) : \A j \in 1..(i - 1) : got.refs[j] # got.refs[i]}
             keep[i \in 0..Len(got.refs)] ==
                 IF i = 0 THEN <<>>
                 ELSE IF i \in first THEN Append(keep[i - 1], got.refs[i]) ELSE keep[i - 1]
         IN  [kind |-> "Ok", refs |-> keep[Len(got.refs)], cs |-> got.cs]

\* codes_in_group that collects the codes before it looks the group up.
codes_in_group_collect_first(t, group, cs) ==
    LET got == get_codes_in_group(group, t.categories, cs)
    IN  IF ~(group \in t.groups) THEN [kind |-> "Err", refs |-> <<>>, cs |-> got.cs]
        ELSE [kind |-> "Ok", refs |-> got.refs, cs |-> got.cs]

\* Returns [kind, refs, cs]; kind "Err" is "Clinical code tree does not contain that group".
codes_in_group(t, group, cs) ==
    IF ~(group \in t.groups) THEN [kind |-> "Err", refs |-> <<>>, cs |-> cs]
    ELSE LET got == get_codes_in_group(group, t.categories, cs)
         IN  [kind |-> "Ok", refs |-> got.refs, cs |-> got.cs]

\* random_clinical_code_from_group that draws from the leaves of the whole tree.
random_clinical_code_from_group_any_leaf(t, rng, cs, group) ==
    LET got == codes_in_group(t, group, cs)
        every == get_codes_in_group("", t.categories, cs)
    IN  IF got.kind = "Ok"
        THEN IF Len(got.refs) > 0
             THEN [kind |-> "Ok", err |-> "",
                   ref |-> every.refs[(Head(rng) % Len(every.refs)) + 1], cs |-> every.cs,
                   rng |-> Tail(rng)]
             ELSE [kind |-> "Err", err |-> "Code group is empty", ref |-> 0, cs |-> got.cs,
                   rng |-> rng]
        ELSE [kind |-> "Err", err |-> "Error occurred fetching codes in group",
              ref |-> 0, cs |-> got.cs, rng |-> rng]

\* random_clinical_code_from_group with one error for both failures.
random_clinical_code_from_group_one_error(t, rng, cs, group) ==
    LET got == codes_in_group(t, group, cs)
    IN  IF got.kind = "Ok" /\ Len(got.refs) > 0
        THEN [kind |-> "Ok", err |-> "",
              ref |-> got.refs[(Head(rng) % Len(got.refs)) + 1], cs |-> got.cs,
              rng |-> Tail(rng)]
        ELSE [kind |-> "Err", err |-> "Error occurred fetching codes in group",
              ref |-> 0, cs |-> got.cs, rng |-> rng]

\* random_clinical_code_from_group that stores the drawn code only.
random_clinical_code_from_group_drawn_only(t, rng, cs, group) ==
    LET got == codes_in_group(t, group, cs)
    IN  IF got.kind = "Ok"
        THEN IF Len(got.refs) > 0
             THEN LET picked == got.refs[(Head(rng) % Len(got.refs)) + 1]
                      r == clinical_code_ref_from(
                               cs, clinical_code_from(got.cs.ids_to_codes, picked).val)
                  IN  [kind |-> "Ok", err |-> "", ref |-> r.ref, cs |-> r.cs,
                       rng |-> Tail(rng)]
             ELSE [kind |-> "Err", err |-> "Code group is empty", ref |-> 0, cs |-> cs,
                   rng |-> rng]
        ELSE [kind |-> "Err", err |-> "Error occurred fetching codes in group",
              ref |-> 0, cs |-> cs, rng |-> rng]

\* Returns [kind, err, ref, cs, rng] (rng: the draws not consumed).
random_clinical_code_from_group(t, rng, cs, group) ==
    LET got == codes_in_group(t, group, cs)
    IN  IF got.kind = "Ok"
        THEN IF Len(got.refs) > 0
             THEN [kind |-> "Ok", err |-> "",
                   ref |-> got.refs[(Head(rng) % Len(got.refs)) + 1], cs |-> got.cs,
                   rng |-> Tail(rng)]
             ELSE [kind |-> "Err", err |-> "Code group is empty", ref |-> 0, cs |-> got.cs,
                   rng |-> rng]
        ELSE [kind |-> "Err", err |-> "Error occurred fetching codes in group",
              ref |-> 0, cs |-> got.cs, rng |-> rng]

groups(t) == t.groups

\* Returns [kind, ref, cs].
find_exact(t, code, cs) ==
    LET normalised_code == normalise_code(code)
    IN  locate_code_in_tree(normalised_code, t.categories, cs)

(***************************************************************************)
(* The code files read.  TreeFile1 follows the layout of the icd10 files:  *)
(* the siblings of one list all carry the same index variant.  TreeFile2   *)
(* has a single-code category (stored as a Single index, as index.rs       *)
(* documents for a = b) between two ranges, and a group, g4, that every    *)
(* top-level node excludes.  Group g3 is declared and mentioned nowhere.   *)
(***************************************************************************)
TreeFile1 ==
    [categories |-> <<
        category(<<"A">>, "chapter A", make_dual(<<"A", "0">>, <<"A", "1">>), <<
            category(<<"A", "0">>, "category A0", make_single(<<"A", "0">>), <<
                leaf(<<"A", "0", ".", "0">>, "code A0.0", make_single(<<"A", "0", "0">>), {}),
                leaf(<<"A", "0", ".", "1">>, "code A0.1", make_single(<<"A", "0", "1">>), {"g1"})
            >>, {}),
            leaf(<<"A", "1">>, "code A1", make_single(<<"A", "1">>), {})
        >>, {}),
        category(<<"B">>, "chapter B", make_dual(<<"B", "0">>, <<"B", "1">>), <<
            leaf(<<"B", "0">>, "code B0", make_single(<<"B", "0">>), {}),
            leaf(<<"B", "1">>, "code B1", make_single(<<"B", "1">>), {})
        >>, {"g2"}),
        category(<<"C">>, "chapter C", make_dual(<<"C", "0">>, <<"C", "0">>), <<
            leaf(<<"C", "0">>, "code C0", make_single(<<"C", "0">>), {"g1", "g2"})
        >>, {})
     >>,
     groups |-> {"g1", "g2", "g3"}]

TreeFile2 ==
    [categories |-> <<
        category(<<"A">>, "chapter A", make_dual(<<"A", "0">>, <<"A", "1">>), <<
            leaf(<<"A", "0">>, "code A0", make_single(<<"A", "0">>), {"g1"}),
            leaf(<<"A", "1">>, "code A1", make_single(<<"A", "1">>), {})
        >>, {"g4"}),
        leaf(<<"B", "0">>, "code B0", make_single(<<"B", "0">>), {"g4"}),
        category(<<"C">>, "chapter C", make_dual(<<"C", "0">>, <<"C", "1">>), <<
            leaf(<<"C", "0">>, "code C0", make_single(<<"C", "0">>), {}),
            leaf(<<"C", "1">>, "code C1", make_single(<<"C", "1">>), {})
        >>, {"g1", "g4"})
     >>,
     groups |-> {"g1", "g4"}]

\* Two siblings carry the same index (the file repeats a code with another description).
TreeFile3 ==
    [categories |-> <<
        leaf(<<"A", "0">>, "first A0", make_single(<<"A", "0">>), {}),
        leaf(<<"A", "0">>, "second A0", make_single(<<"A", "0">>), {"g1"})
     >>,
     groups |-> {"g1"}]

\* The same code, with the same description, is listed twice, under two indices.
TreeFile4 ==
    [categories |-> <<
        leaf(<<"A", "0">>, "code A0", make_single(<<"A", "0">>), {}),
        leaf(<<"A", "0">>, "code A0", make_single(<<"A", "1">>), {"g1"})
     >>,
     groups |-> {"g1", "g2"}]

TreeFiles == {TreeFile1, TreeFile2, TreeFile3, TreeFile4}

Permute(seq, perm) == [i \in 1..Len(seq) |-> seq[perm[i]]]

Perms(n) == {f \in [1..n -> 1..n] : \A i, j \in 1..n : i # j => f[i] # f[j]}

\* Every order the sibling lists of a forest can have in the file, at every level.
RECURSIVE Shuffles(_)
NodeShuffles(cat) ==
    IF is_leaf(cat) THEN {cat}
    ELSE {[cat EXCEPT !.categories.val = s] : s \in Shuffles(cat.categories.val)}

Shuffles(cats) ==
    LET n == Len(cats)
        all == UNION {NodeShuffles(cats[i]) : i \in 1..n}
        picks == {f \in [1..n -> all] : \A i \in 1..n : f[i] \in NodeShuffles(cats[i])}
    IN  {Permute(f, p) : f \in picks, p \in Perms(n)}

Inputs ==
    UNION {{[categories |-> s, groups |-> file.groups] : s \in Shuffles(file.categories)}
              : file \in TreeFiles}

\* The strings handed to find_exact.
TestCodes ==
    {<<"A", "0", ".", "0">>, <<"a", "0", ".", "1">>, <<" ", "A", "1">>, <<"A", "0">>,
     <<"B", "0">>, <<"b", "1", " ">>, <<"C", "0">>, <<"c", "1">>,
     <<"A", "0", ".", "0", "X">>, <<"A", "0", ".", "2">>, <<"B", "2">>,
     <<"A">>, <<"c">>, <<>>, <<".", " ">>, <<"X", "0", "|">>}

\* The group names handed to the group queries.
TestGroups == {"g1", "g2", "g3", "g4", "unknown_group"}

\* The codes interned directly (one of them is a leaf of both files).
TestClinicalCodes ==
    {ClinicalCode_new(<<"A", "1">>, "code A1"),
     ClinicalCode_new(<<"A", "1">>, "another description"),
     ClinicalCode_new(<<"X", "0">>, "code X0")}

RECURSIVE Depth(_)
Depth(categories) ==
    IF categories = <<>> THEN 0
    ELSE LET ds == {IF is_leaf(categories[i]) THEN 1 ELSE 1 + Depth(categories[i].categories.val)
                       : i \in 1..Len(categories)}
         IN  CHOOSE d \in ds : \A e \in ds : e <= d

RECURSIVE Width(_)
Width(categories) ==
    IF categories = <<>> THEN 0
    ELSE LET ws == {Len(categories)} \cup
                   {IF is_leaf(categories[i]) THEN 0 ELSE Width(categories[i].categories.val)
                       : i \in 1..Len(categories)}
         IN  CHOOSE w \in ws : \A e \in ws : e <= w

RECURSIVE CountLeaves(_)
CountLeaves(categories) ==
    IF categories = <<>> THEN 0
    ELSE (IF is_leaf(categories[1]) THEN 1 ELSE CountLeaves(categories[1].categories.val))
         + CountLeaves(Tail(categories))

\* The generators: what the next Depth draws yield, each below the widest list.
Rngs(t) == [1..Depth(t.categories) -> 0..(Width(t.categories) - 1)]

\* One draw over a list of all the leaves.
GroupRngs(t) == {<<d>> : d \in 0..(CountLeaves(t.categories) - 1)}

(***************************************************************************)
(* The state machine.                                                      *)
(***************************************************************************)
NoTree == [categories |-> <<>>, groups |-> {}]

NoCall ==
    [op |-> "none", code |-> <<>>, group |-> "", arg |-> ClinicalCode_new(<<>>, ""), id |-> 0,
     index |-> make_single(<<>>),
     kind |-> "", err |-> "", ref |-> 0, refs |-> <<>>, val |-> ClinicalCode_new(<<>>, ""),
     set |-> {}, content |-> NoTree, other |-> make_single(<<>>), out |-> <<>>]

Init ==
    /\ index_rs \in {"rust_hic", "rust_hbr"}
    /\ pc = "start"
    /\ reader \in Inputs
    /\ tree = NoTree
    /\ store = ClinicalCodeStore_new.ids_to_codes
    /\ history = ClinicalCodeStore_new.first_seen
    /\ last = NoCall
    /\ calls = 0
    /\ runs = <<>>

CS == [ids_to_codes |-> store, first_seen |-> history]

Ready == pc = "built" /\ calls < MaxCalls

\* Returned for a call that gives up the tree when it fails.
Returned_tree_lost_on_error(call, res) ==
    /\ last' = call
    /\ store' = res.cs.ids_to_codes
    /\ history' = res.cs.first_seen
    /\ pc' = IF call.kind = "Panic" THEN "aborted" ELSE pc
    /\ calls' = calls + 1
    /\ tree' = IF call.kind = "Err" THEN NoTree ELSE tree
    /\ UNCHANGED <<index_rs, reader, runs>>

\* A call returned res, which carries the store after the call; a panic unwinds.
Returned(call, res) ==
    /\ last' = call
    /\ store' = res.cs.ids_to_codes
    /\ history' = res.cs.first_seen
    /\ pc' = IF call.kind = "Panic" THEN "aborted" ELSE pc
    /\ calls' = calls + 1
    /\ UNCHANGED <<index_rs, reader, tree, runs>>

FromReader ==
    /\ pc = "start"
    /\ tree' = from_reader(reader)
    /\ reader' = NoTree
    /\ pc' = "built"
    /\ last' = [NoCall EXCEPT !.op = "from_reader", !.kind = "Ok", !.content = reader]
    /\ UNCHANGED <<index_rs, store, history, calls, runs>>

FindExact ==
    /\ Ready
    /\ \E code \in TestCodes :
          LET res == find_exact(tree, code, CS)
          IN  Returned([NoCall EXCEPT !.op = "find_exact", !.code = code,
                                      !.kind = res.kind, !.ref = res.ref], res)

CodesInGroup ==
    /\ Ready
    /\ \E group \in TestGroups :
          LET res == codes_in_group(tree, group, CS)
          IN  Returned([NoCall EXCEPT !.op = "codes_in_group", !.group = group,
                                      !.kind = res.kind, !.refs = res.refs], res)

Groups ==
    /\ Ready
    /\ Returned([NoCall EXCEPT !.op = "groups", !.kind = "Ok", !.set = groups(tree)],
                [cs |-> CS])

RandomClinicalCode ==
    /\ Ready
    /\ \E rng \in Rngs(tree) :
          LET res == random_clinical_code(tree, rng, CS)
          IN  Returned([NoCall EXCEPT !.op = "random_clinical_code",
                                      !.kind = res.kind, !.ref = res.ref], res)

RandomClinicalCodeFromGroup ==
    /\ Ready
    /\ \E group \in TestGroups, rng \in GroupRngs(tree) :
          LET res == random_clinical_code_from_group(tree, rng, CS, group)
          IN  Returned([NoCall EXCEPT !.op = "random_clinical_code_from_group",
                                      !.group = group, !.kind = res.kind, !.err = res.err,
                                      !.ref = res.ref], res)

ClinicalCodeRefFrom ==
    /\ Ready
    /\ \E clinical_code \in TestClinicalCodes :
          LET res == clinical_code_ref_from(CS, clinical_code)
          IN  Returned([NoCall EXCEPT !.op = "clinical_code_ref_from", !.arg = clinical_code,
                                      !.kind = "Ok", !.ref = res.ref], res)

\* The references asked for: every id issued, the next two, and the id of the
\* store's own test.
ProbedIds == 0..(num_stored_codes(store) + 1) \cup {32}

ClinicalCodeFrom ==
    /\ Ready
    /\ \E id \in ProbedIds :
          LET res == clinical_code_from(store, id)
          IN  Returned([NoCall EXCEPT !.op = "clinical_code_from", !.id = id,
                                      !.kind = IF res.some THEN "Some" ELSE "None",
                                      !.val = res.val],
                       [cs |-> CS])

Next ==
    \/ FromReader
    \/ FindExact
    \/ CodesInGroup
    \/ Groups
    \/ RandomClinicalCode
    \/ RandomClinicalCodeFromGroup
    \/ ClinicalCodeRefFrom
    \/ ClinicalCodeFrom

Spec == Init /\ [][Next]_vars

(***************************************************************************)
(* Index::compare on its own: the indices of the code files and a few more *)
(* against normalised codes.                                               *)
(***************************************************************************)
RECURSIVE Indices(_)
Indices(categories) ==
    IF categories = <<>> THEN {}
    ELSE {categories[1].index}
         \cup (IF is_leaf(categories[1]) THEN {} ELSE Indices(categories[1].categories.val))
         \cup Indices(Tail(categories))

TestIndices ==
    UNION {Indices(file.categories) : file \in TreeFiles}
        \cup {make_dual(<<"A", "0", "0">>, <<"A", "0", "2">>), make_single(<<"B", "1", "2">>),
              make_dual(<<"I", "0", "0">>, <<"I", "0", "2">>)}

CompareCodes ==
    {normalise_code(code) : code \in TestCodes}
        \cup {<<"a", "0", "2", "2", "3">>, <<"a", "0", "3", "0">>, <<"b", "1", "2">>}
        \cup {<<"i", "0", "0", "0">>, <<"i", "0", "2">>, <<"i", "0", "2", "2", "3">>,
              <<"i", "0", "1", "1">>, <<"h", "9", "9", "9">>, <<"a", "0", "0", "1">>,
              <<"i", "0", "3", "0">>, <<"z", "0", "0", "1">>}

InitCompare ==
    /\ index_rs \in {"rust_hic", "rust_hbr"}
    /\ pc = "index"
    /\ reader = NoTree
    /\ tree = NoTree
    /\ store = {}
    /\ history = <<>>
    /\ last = NoCall
    /\ calls = 0
    /\ runs = <<>>

Compare ==
    /\ pc = "index"
    /\ \E index \in TestIndices, code \in CompareCodes :
          last' = [NoCall EXCEPT !.op = "compare", !.index = index, !.code = code,
                                 !.kind = compare(index, code)]
    /\ UNCHANGED <<index_rs, pc, reader, tree, store, history, calls, runs>>

\* Ord::cmp of two indices, which sort_by calls on siblings.
IndexCmp ==
    /\ pc = "index"
    /\ \E index \in TestIndices, other \in TestIndices :
          last' = [NoCall EXCEPT !.op = "cmp", !.index = index, !.other = other,
                                 !.kind = index_cmp(index, other)]
    /\ UNCHANGED <<index_rs, pc, reader, tree, store, history, calls, runs>>

NextCompare == Compare \/ IndexCmp

SpecCompare == InitCompare /\ [][NextCompare]_vars

(***************************************************************************)
(* make_rng (seeded_rng.rs) and two runs that sample with it.  Blake2b512  *)
(* and ChaCha8 are stood for by small arithmetic functions of the same     *)
(* inputs: the digest depends on every byte of the message and on nothing  *)
(* else, the output of the generator on its seed and on its position.      *)
(***************************************************************************)
digit(d) ==
    CASE d = 0 -> "0" [] d = 1 -> "1" [] d = 2 -> "2" [] d = 3 -> "3" [] d = 4 -> "4"
      [] d = 5 -> "5" [] d = 6 -> "6" [] d = 7 -> "7" [] d = 8 -> "8" [] d = 9 -> "9"

\* Display for u64: the decimal digits, no sign, no padding.
RECURSIVE to_string(_)
to_string(n) == IF n < 10 THEN <<digit(n)>> ELSE Append(to_string(n \div 10), digit(n % 10))

\* format!("{id}{global_seed}")
format_message(id, global_seed) == id \o to_string(global_seed)

\* hasher.update(message); hasher.finalize()[0..32]
RECURSIVE blake2b_seed(_)
blake2b_seed(message) ==
    IF message = <<>> THEN 7
    ELSE (blake2b_seed(SubSeq(message, 1, Len(message) - 1)) * 31
            + byte(message[Len(message)])) % 65521

\* ChaCha8Rng::from_seed: the generator is its seed and the position in its stream.
ChaCha8Rng_from_seed(seed) == [seed |-> seed, pos |-> 0]

\* make_rng that also mixes in the time at which it is called.
make_rng_with_clock(global_seed, id) ==
    ChaCha8Rng_from_seed(blake2b_seed(format_message(id, global_seed) \o to_string(calls)))

make_rng(global_seed, id) == ChaCha8Rng_from_seed(blake2b_seed(format_message(id, global_seed)))

\* The output of the generator at its position.
next_u32(g) == (((g.seed * 251 + 13849) % 65536) * (g.pos + 1) + g.pos * 7) % 65536

\* The next n outputs of the generator, which a sampling call draws from.
Stream(g, n) == [i \in 1..n |-> next_u32([g EXCEPT !.pos = g.pos + i - 1])]

GlobalSeeds == {2, 12}

RngIds == {<<"a">>, <<"a", "1">>}

NewRun(global_seed, id) ==
    [global_seed |-> global_seed, id |-> id, made |-> FALSE, message |-> <<>>,
     rng |-> ChaCha8Rng_from_seed(0), cs |-> ClinicalCodeStore_new, refs |-> <<>>]

InitRng ==
    /\ index_rs \in {"rust_hic", "rust_hbr"}
    /\ pc = "rng"
    /\ reader = NoTree
    /\ tree \in {from_reader(file) : file \in TreeFiles}
    /\ store = {}
    /\ history = <<>>
    /\ last = NoCall
    /\ calls = 0
    /\ runs \in [{1, 2} -> {NewRun(global_seed, id) : global_seed \in GlobalSeeds, id \in RngIds}]

\* One of the runs makes its generator.
MakeRng ==
    /\ pc = "rng"
    /\ \E r \in {1, 2} :
          /\ ~runs[r].made
          /\ runs' = [runs EXCEPT ![r] =
                        [@ EXCEPT !.made = TRUE,
                                  !.message = format_message(runs[r].id, runs[r].global_seed),
                                  !.rng = make_rng(runs[r].global_seed, runs[r].id)]]
    /\ calls' = calls + 1
    /\ UNCHANGED <<index_rs, pc, reader, tree, store, history, last>>

CanDraw == pc = "rng" /\ runs[1].made /\ runs[2].made /\ calls < 2 + MaxDraws

\* A run after a sampling call that was given n outputs of its generator and returned res.
Drew(run, n, res) ==
    [run EXCEPT !.rng.pos = @ + (n - Len(res.rng)),
                !.cs = res.cs,
                !.refs = Append(@, [kind |-> res.kind, ref |-> res.ref])]

RunRandomClinicalCode(run) ==
    LET n == Depth(tree.categories)
    IN  Drew(run, n, random_clinical_code(tree, Stream(run.rng, n), run.cs))

RunRandomClinicalCodeFromGroup(run, group) ==
    Drew(run, 1, random_clinical_code_from_group(tree, Stream(run.rng, 1), run.cs, group))

\* Both runs make the same call, each with its own generator and store.
DrawRandomClinicalCode ==
    /\ CanDraw
    /\ runs' = [r \in {1, 2} |-> RunRandomClinicalCode(runs[r])]
    /\ calls' = calls + 1
    /\ UNCHANGED <<index_rs, pc, reader, tree, store, history, last>>

DrawRandomClinicalCodeFromGroup ==
    /\ CanDraw
    /\ \E group \in TestGroups :
          runs' = [r \in {1, 2} |-> RunRandomClinicalCodeFromGroup(runs[r], group)]
    /\ calls' = calls + 1
    /\ UNCHANGED <<index_rs, pc, reader, tree, store, history, last>>

NextRng ==
    \/ MakeRng
    \/ DrawRandomClinicalCode
    \/ DrawRandomClinicalCodeFromGroup

SpecRng == InitRng /\ [][NextRng]_vars

(***************************************************************************)
(* normalise_code on its own: every string of up to MaxLen characters of   *)
(* letters of both cases, whitespace, dot, digit and other punctuation,    *)
(* and the strings handed to find_exact.                                   *)
(***************************************************************************)
NormaliseChars == {"A", "a", "X", "x", " ", "\t", ".", "0", "|"}

RawCodes == UNION {[1..n -> NormaliseChars] : n \in 0..MaxLen} \cup TestCodes

InitNormalise ==
    /\ index_rs \in {"rust_hic", "rust_hbr"}
    /\ pc = "normalise"
    /\ reader = NoTree
    /\ tree = NoTree
    /\ store = {}
    /\ history = <<>>
    /\ last = NoCall
    /\ calls = 0
    /\ runs = <<>>

Normalise ==
    /\ pc = "normalise"
    /\ \E code \in RawCodes :
          last' = [NoCall EXCEPT !.op = "normalise_code", !.code = code,
                                 !.out = normalise_code(code)]
    /\ UNCHANGED <<index_rs, pc, reader, tree, store, history, calls, runs>>

NextNormalise == Normalise

SpecNormalise == InitNormalise /\ [][NextNormalise]_vars

(***************************************************************************)
(* locate_code_in_categories on its own: every sibling list of a built     *)
(* tree is searched for normalised codes.                                  *)
(***************************************************************************)
RECURSIVE SiblingLists(_)
SiblingLists(categories) ==
    {categories}
        \cup UNION {IF categories[i].categories.some
                    THEN SiblingLists(categories[i].categories.val) ELSE {}
                       : i \in 1..Len(categories)}

InitLocate ==
    /\ index_rs \in {"rust_hic", "rust_hbr"}
    /\ pc = "locate"
    /\ reader = NoTree
    /\ tree \in {from_reader(file) : file \in Inputs}
    /\ store = {}
    /\ history = <<>>
    /\ last = NoCall
    /\ calls = 0
    /\ runs = <<>>

Locate ==
    /\ pc = "locate"
    /\ \E categories \in SiblingLists(tree.categories), code \in CompareCodes :
          LET found == locate_code_in_categories(code, categories)
          IN  last' = [NoCall EXCEPT !.op = "locate_code_in_categories", !.code = code,
                                     !.content = [categories |-> categories, groups |-> {}],
                                     !.kind = found.kind, !.id = found.pos]
    /\ UNCHANGED <<index_rs, pc, reader, tree, store, history, calls, runs>>

NextLocate == Locate

SpecLocate == InitLocate /\ [][NextLocate]_vars

(***************************************************************************)
(* What the properties below are stated with: the leaves of a forest in    *)
(* pre-order, each with the union of the exclude sets on its path, read    *)
(* from the fields of the nodes.                                           *)
(***************************************************************************)
RECURSIVE Walk(_, _)
Walk(categories, inherited) ==
    IF categories = <<>> THEN <<>>
    ELSE LET cat == categories[1]
             excl == inherited \cup (IF cat.exclude.some THEN cat.exclude.val ELSE {})
             here == IF cat.categories.some
                     THEN Walk(cat.categories.val, excl)
                     ELSE <<[code |-> [name |-> cat.name, docs |-> cat.docs],
                             own |-> IF cat.exclude.some THEN cat.exclude.val ELSE {},
                             excl |-> excl]>>
         IN  here \o Walk(Tail(categories), inherited)

Leaves == Walk(tree.categories, {})

\* The codes the sequence of references refs stands for in the map m.
Resolved(m, refs) == [i \in 1..Len(refs) |-> {p.code : p \in {q \in m : q.id = refs[i]}}]

Range(seq) == {seq[i] : i \in 1..Len(seq)}

Surviving(group) == SelectSeq(Leaves, LAMBDA lf : ~(group \in lf.excl))

IsCall(op) == last.op = op

(***************************************************************************)
(* C1  Round-trip lookup: find_exact of a leaf's normalised name returns   *)
(* Ok with a reference the store resolves to that leaf's name and docs.    *)
(***************************************************************************)
C1_RoundTripLookup ==
    IsCall("find_exact") =>
        \A i \in 1..Len(Leaves) :
            normalise_code(last.code) = normalise_code(Leaves[i].code.name) =>
                /\ last.kind = "Ok"
                /\ Resolved(store, <<last.ref>>) = <<{Leaves[i].code}>>

(***************************************************************************)
(* C2  find_exact never panics: every call returns Ok or the not-found     *)
(* error, whatever the length of the input.                                *)
(***************************************************************************)
C2_FindExactNeverPanics ==
    IsCall("find_exact") => last.kind \in {"Ok", "Err"} /\ pc # "aborted"

(***************************************************************************)
(* C3  Group exclusion: for a declared group, a leaf is in the result of   *)
(* codes_in_group exactly when neither it nor an ancestor excludes the     *)
(* group.                                                                  *)
(***************************************************************************)
C3_GroupExclusion ==
    (IsCall("codes_in_group") /\ last.kind = "Ok") =>
        Range(Resolved(store, last.refs))
            = {{Leaves[i].code} : i \in {j \in 1..Len(Leaves) : ~(last.group \in Leaves[j].excl)}}

\* A leaf shut out of g2 by its parent alone is missing from g2's result, which
\* holds other leaves.
C3_Witness ==
    /\ IsCall("codes_in_group") /\ last.kind = "Ok" /\ last.group = "g2"
    /\ Len(last.refs) > 0
    /\ \E i \in 1..Len(Leaves) :
          /\ "g2" \in Leaves[i].excl /\ ~("g2" \in Leaves[i].own)
          /\ ~({Leaves[i].code} \in Range(Resolved(store, last.refs)))

(***************************************************************************)
(* C4  Group enumeration order: codes_in_group lists the surviving leaves  *)
(* in the order a pre-order walk of the built forest meets them.           *)
(***************************************************************************)
C4_GroupOrder ==
    (IsCall("codes_in_group") /\ last.kind = "Ok") =>
        Resolved(store, last.refs)
            = [i \in 1..Len(Surviving(last.group)) |-> {Surviving(last.group)[i].code}]

\* Three or more leaves survive, from more than one level of the forest.
C4_Witness ==
    /\ IsCall("codes_in_group") /\ last.kind = "Ok"
    /\ Len(last.refs) >= 3
    /\ Len(last.refs) < Len(Leaves)
    /\ Depth(tree.categories) >= 3

(***************************************************************************)
(* C5  codes_in_group returns the unknown-group error exactly when the     *)
(* group is not declared in the tree; a declared group gives Ok.           *)
(***************************************************************************)
C5_UnknownGroup ==
    IsCall("codes_in_group") =>
        /\ last.kind \in {"Ok", "Err"}
        /\ last.kind = "Err" <=> ~(last.group \in tree.groups)

C5_Witness ==
    /\ IsCall("codes_in_group") /\ last.kind = "Err"
    /\ ~(last.group \in tree.groups)
    /\ tree.groups # {}

(***************************************************************************)
(* C6  Store dedup: interning a pair already in the store returns the      *)
(* reference first issued for it and leaves the number of stored codes     *)
(* unchanged; interning a new pair adds exactly one.                       *)
(***************************************************************************)
FirstRef(h, clinical_code) == {h[i].ref : i \in {j \in 1..Len(h) : h[j].code = clinical_code}}

C6_StoreDedup ==
    [][(last'.op = "clinical_code_ref_from" /\ calls' = calls + 1) =>
          IF \E p \in store : p.code = last'.arg
          THEN /\ {last'.ref} = FirstRef(history, last'.arg)
               /\ Cardinality(store') = Cardinality(store)
               /\ store' = store
          ELSE Cardinality(store') = Cardinality(store) + 1]_vars

\* The same pair interned twice: the second call returns id 0 again.
C6_Witness ==
    /\ IsCall("clinical_code_ref_from") /\ calls = 2
    /\ Cardinality(store) = 1
    /\ last.ref = 0
    /\ store = {[id |-> 0, code |-> last.arg]}

(***************************************************************************)
(* C7  Dense ids: the ids held are exactly 0 .. n-1 for n stored codes,    *)
(* each id maps to a different code, and the k-th distinct code interned   *)
(* has id k.                                                               *)
(***************************************************************************)
C7_DenseIds ==
    /\ {p.id : p \in store} = 0..(Cardinality(store) - 1)
    /\ Cardinality({p.code : p \in store}) = Cardinality(store)
    /\ Len(history) = Cardinality(store)
    /\ \A k \in 1..Len(history) :
          /\ history[k].ref = k - 1
          /\ [id |-> k - 1, code |-> history[k].code] \in store

\* Codes interned by two different operations, at least four in all.
C7_Witness ==
    /\ Cardinality(store) >= 4
    /\ calls = 2
    /\ IsCall("clinical_code_ref_from")
    /\ last.ref = Cardinality(store) - 1

(***************************************************************************)
(* C8  Id stability: a pair the store holds stays in it through every      *)
(* later call, its reference resolves to the same code, no reference is    *)
(* issued for two codes, and the number of stored codes never decreases.   *)
(***************************************************************************)
C8_IdStability ==
    [][/\ \A p \in store :
             /\ p \in store'
             /\ clinical_code_from(store', p.id) = [some |-> TRUE, val |-> p.code]
       /\ \A i \in 1..Len(history) : history'[i] = history[i]
       /\ \A i, j \in 1..Len(history') : history'[i].ref = history'[j].ref => i = j
       /\ Cardinality(store') >= Cardinality(store)]_vars

\* A later call added codes to a store that already held one.
C8_Witness ==
    /\ calls = 2
    /\ Cardinality(store) >= 3
    /\ Len(history) >= 3
    /\ ~IsCall("clinical_code_ref_from")
    /\ history[1].code \in TestClinicalCodes
    /\ [id |-> 0, code |-> history[1].code] \in store

(***************************************************************************)
(* C9  clinical_code_from returns None for an id the store never issued    *)
(* (every id >= the number of stored codes), Some(code) for an issued id,  *)
(* and leaves the store as it was.                                         *)
(***************************************************************************)
C9_ClinicalCodeFrom ==
    [][(last'.op = "clinical_code_from" /\ calls' = calls + 1) =>
          /\ store' = store
          /\ history' = history
          /\ last'.id >= Cardinality(store) => last'.kind = "None"
          /\ IF \E i \in 1..Len(history) : history[i].ref = last'.id
             THEN /\ last'.kind = "Some"
                  /\ \E i \in 1..Len(history) :
                        history[i].ref = last'.id /\ history[i].code = last'.val
             ELSE last'.kind = "None"]_vars

\* An id that was never issued is asked of a store that holds codes.
C9_Witness ==
    /\ IsCall("clinical_code_from") /\ last.kind = "None"
    /\ store # {}
    /\ last.id >= Cardinality(store)

(***************************************************************************)
(* C10  Index::compare answers from the index's point of view: Equal when  *)
(* the code (truncated to the index's length) lies in the range, Less when *)
(* the index lies below the code, Greater when it lies above the code.     *)
(***************************************************************************)
IndexEnd(index) == IF index.variant = "Single" THEN index.a ELSE index.b

C10_CompareDirection ==
    (IsCall("compare") /\ Len(last.code) >= Len(last.index.a)) =>
        LET c_prime == SubSeq(to_ascii_uppercase(last.code), 1, Len(last.index.a))
        IN  /\ last.kind \in {"Less", "Equal", "Greater"}
            /\ last.kind = "Greater" <=> str_cmp(c_prime, last.index.a) = "Less"
            /\ last.kind = "Less" <=> str_cmp(c_prime, IndexEnd(last.index)) = "Greater"

(***************************************************************************)
(* C11  Range boundary inclusivity, as claimed: for a range index whose    *)
(* bounds have the same length L and a code of at least L characters,      *)
(* compare returns Equal exactly when the upper-cased code truncated to L  *)
(* lies in [start, end], Less for a code that sorts below start and        *)
(* Greater for a code whose truncation sorts above end.                    *)
(***************************************************************************)
RangeCase ==
    /\ IsCall("compare") /\ last.index.variant = "Dual"
    /\ Len(last.index.a) = Len(last.index.b)
    /\ Len(last.code) >= Len(last.index.a)

Truncated == SubSeq(to_ascii_uppercase(last.code), 1, Len(last.index.a))

InRange == str_cmp(last.index.a, Truncated) # "Greater" /\ str_cmp(Truncated, last.index.b) # "Greater"

C12_LeafPrefixMatch ==
    (IsCall("compare") /\ last.index.variant = "Single"
        /\ Len(last.code) >= Len(last.index.a)) =>
        (last.kind = "Equal" <=> Truncated = last.index.a)

(***************************************************************************)
(* C13  find_exact is an exact match: it returns Ok only when the          *)
(* normalised input equals the normalised code of a leaf of the tree, and  *)
(* the reference is to that leaf; a leaf's code followed by extra          *)
(* characters, or a code in a category's range that names none of its      *)
(* leaves, gets the error result.                                          *)
(***************************************************************************)
C13_FindExactIsExact ==
    (IsCall("find_exact") /\ last.kind = "Ok") =>
        \E i \in 1..Len(Leaves) :
            /\ normalise_code(Leaves[i].code.name) = normalise_code(last.code)
            /\ Resolved(store, <<last.ref>>)[1] = {Leaves[i].code}

(***************************************************************************)
(* C14  Sortedness: in the tree from_reader returned, the sibling list at  *)
(* every level is in ascending order of the ordering of Index, and this    *)
(* stays so in every state later queries lead to.                          *)
(***************************************************************************)
Ascending(categories) ==
    \A i \in 1..(Len(categories) - 1) :
        index_cmp(categories[i].index, categories[i + 1].index) # "Greater"

RECURSIVE AscendingAtEveryLevel(_)
AscendingAtEveryLevel(categories) ==
    /\ Ascending(categories)
    /\ \A i \in 1..Len(categories) :
          categories[i].categories.some => AscendingAtEveryLevel(categories[i].categories.val)

C14_Sortedness == pc \in {"built", "aborted"} => AscendingAtEveryLevel(tree.categories)

\* A tree of three levels, after a sampling call and a lookup that found a code.
C14_Witness ==
    /\ pc = "built" /\ calls = 2
    /\ Depth(tree.categories) = 3
    /\ IsCall("find_exact") /\ last.kind = "Ok"
    /\ Cardinality(store) = 2

(***************************************************************************)
(* C15  Sort idempotence, as claimed: for any input forest, building the   *)
(* tree from any permutation of its sibling lists, at any level, yields    *)
(* the identical sorted tree, and building an already sorted forest        *)
(* returns it unchanged.                                                   *)
(***************************************************************************)
RECURSIVE PermutationOf(_, _)
PermutationOf(cats1, cats2) ==
    /\ Len(cats1) = Len(cats2)
    /\ \E p \in Perms(Len(cats1)) :
          \A i \in 1..Len(cats1) :
              LET c1 == cats1[i]
                  c2 == cats2[p[i]]
              IN  /\ [c1 EXCEPT !.categories = None_categories]
                        = [c2 EXCEPT !.categories = None_categories]
                  /\ c1.categories.some = c2.categories.some
                  /\ c1.categories.some => PermutationOf(c1.categories.val, c2.categories.val)

BuiltAlike ==
    \A input \in Inputs :
        (input.groups = last.content.groups
            /\ PermutationOf(input.categories, last.content.categories))
        => from_reader(input) = tree

SortedUnchanged == AscendingAtEveryLevel(last.content.categories) => tree = last.content

C15_SortIdempotenceClaimed == IsCall("from_reader") => (BuiltAlike /\ SortedUnchanged)

(***************************************************************************)
(* C15  Sort idempotence, amended: for an input forest in which the        *)
(* siblings of every list have pairwise different indices, every           *)
(* permutation of its sibling lists builds the identical sorted tree; an   *)
(* already sorted forest, equal indices or not, is returned unchanged.     *)
(***************************************************************************)
RECURSIVE DistinctIndices(_)
DistinctIndices(categories) ==
    /\ \A i, j \in 1..Len(categories) : i # j => categories[i].index # categories[j].index
    /\ \A i \in 1..Len(categories) :
          categories[i].categories.some => DistinctIndices(categories[i].categories.val)

C15_SortIdempotence ==
    IsCall("from_reader") =>
        /\ DistinctIndices(last.content.categories) => BuiltAlike
        /\ SortedUnchanged

\* A file of three levels read with its top level and a lower level out of order.
C15_Witness ==
    /\ IsCall("from_reader") /\ DistinctIndices(last.content.categories)
    /\ Depth(tree.categories) = 3
    /\ \E i \in 1..Len(tree.categories) : last.content.categories[i].index # tree.categories[i].index
    /\ \E i, j \in 1..Len(tree.categories) :
          /\ last.content.categories[i].index = tree.categories[j].index
          /\ last.content.categories[i] # tree.categories[j]

C17_SamplingSupport ==
    (IsCall("random_clinical_code_from_group") /\ last.kind = "Ok") =>
        /\ last.group \in tree.groups
        /\ last.ref \in Range(codes_in_group(tree, last.group, CS).refs)
        /\ \E i \in 1..Len(Surviving(last.group)) :
              Resolved(store, <<last.ref>>)[1] = {Surviving(last.group)[i].code}

\* A second call draws a leaf other than the first one of a group that excludes leaves.
C17_Witness ==
    /\ IsCall("random_clinical_code_from_group") /\ last.kind = "Ok"
    /\ calls = 2
    /\ Len(Surviving(last.group)) < Len(Leaves)
    /\ Resolved(store, <<last.ref>>)[1] # {Surviving(last.group)[1].code}

(***************************************************************************)
(* C18  random_clinical_code_from_group fails in exactly two cases, told   *)
(* apart by the error returned: the group is not declared in the tree, or  *)
(* the group is declared and codes_in_group yields no leaf for it; in      *)
(* every other case it returns Ok.                                         *)
(***************************************************************************)
C18_SamplingErrors ==
    IsCall("random_clinical_code_from_group") =>
        /\ last.kind \in {"Ok", "Err"}
        /\ (last.kind = "Err" /\ last.err = "Error occurred fetching codes in group")
              <=> ~(last.group \in tree.groups)
        /\ (last.kind = "Err" /\ last.err = "Code group is empty")
              <=> (last.group \in tree.groups /\ Len(Surviving(last.group)) = 0)
        /\ last.kind = "Ok"
              <=> (last.group \in tree.groups /\ Len(Surviving(last.group)) > 0)

\* A declared group that every top-level node excludes.
C18_Witness ==
    /\ IsCall("random_clinical_code_from_group")
    /\ last.kind = "Err" /\ last.err = "Code group is empty"
    /\ last.group \in tree.groups /\ Len(Leaves) > 0

(***************************************************************************)
(* C19  random_clinical_code always returns a clinical code, never a       *)
(* category: on a non-empty tree whose categories all have children, for   *)
(* every sequence of random choices the descent ends without a panic and   *)
(* the reference returned stands for the (name, docs) of a leaf.           *)
(***************************************************************************)
C19_RandomIsLeaf ==
    IsCall("random_clinical_code") =>
        /\ last.kind = "Ok"
        /\ \E i \in 1..Len(Leaves) : Resolved(store, <<last.ref>>)[1] = {Leaves[i].code}

\* A leaf on the third level is drawn.
C19_Witness ==
    /\ IsCall("random_clinical_code") /\ last.kind = "Ok"
    /\ \E i, j, k \in 1..3 :
          /\ i <= Len(tree.categories)
          /\ tree.categories[i].categories.some
          /\ j <= Len(tree.categories[i].categories.val)
          /\ tree.categories[i].categories.val[j].categories.some
          /\ k <= Len(tree.categories[i].categories.val[j].categories.val)
          /\ Resolved(store, <<last.ref>>)[1]
                = {ClinicalCode_from(tree.categories[i].categories.val[j].categories.val[k])}

(***************************************************************************)
(* C20  random_clinical_code makes one choice per level, uniform over the  *)
(* children of the current node whatever the sizes of the subtrees and the *)
(* exclude sets: every leaf of the tree can be returned, and the share of  *)
(* the equally likely draw sequences that return a leaf is the product,    *)
(* over the levels on its path, of 1/(number of siblings at that level).   *)
(* A draw is a number below a common multiple of the lengths of the        *)
(* sibling lists, so every sibling of a list is picked by equally many.    *)
(***************************************************************************)
RECURSIVE ListLengths(_)
ListLengths(categories) ==
    {Len(categories)}
        \cup UNION {IF categories[i].categories.some
                    THEN ListLengths(categories[i].categories.val) ELSE {}
                       : i \in 1..Len(categories)}

RECURSIVE Product(_)
Product(S) == IF S = {} THEN 1 ELSE LET x == CHOOSE y \in S : TRUE IN x * Product(S \ {x})

CommonMultiple(categories) ==
    LET lens == ListLengths(categories)
    IN  SetMin({n \in 1..Product(lens) : \A l \in lens : n % l = 0})

UniformRngs(t) == [1..Depth(t.categories) -> 0..(CommonMultiple(t.categories) - 1)]

\* The leaves in pre-order, each with the product of the lengths of the lists on its path.
RECURSIVE WalkSiblings(_, _)
WalkSiblings(categories, above) ==
    LET here(cat) ==
            IF cat.categories.some
            THEN WalkSiblings(cat.categories.val, above * Len(categories))
            ELSE <<[code |-> [name |-> cat.name, docs |-> cat.docs],
                    siblings |-> above * Len(categories)]>>
        from[i \in 1..(Len(categories) + 1)] ==
            IF i > Len(categories) THEN <<>> ELSE here(categories[i]) \o from[i + 1]
    IN  from[1]

Drawn(rng) ==
    LET res == random_clinical_code(tree, rng, ClinicalCodeStore_new)
    IN  Resolved(res.cs.ids_to_codes, <<res.ref>>)[1]

\* The number of the draw sequences in total that end in a leaf with this code; a code
\* listed by several leaves gets the sequences of each of them.
RECURSIVE SequencesFor(_, _, _)
SequencesFor(leaves, code, total) ==
    IF leaves = <<>> THEN 0
    ELSE (IF leaves[1].code = code THEN total \div leaves[1].siblings ELSE 0)
            + SequencesFor(Tail(leaves), code, total)

C20_UniformPerLevel ==
    IsCall("random_clinical_code") =>
        LET leaves == WalkSiblings(tree.categories, 1)
            total == Cardinality(UniformRngs(tree))
        IN  \A i \in 1..Len(leaves) :
                /\ \E rng \in Rngs(tree) : Drawn(rng) = {leaves[i].code}
                /\ total % leaves[i].siblings = 0
                /\ Cardinality({rng \in UniformRngs(tree) : Drawn(rng) = {leaves[i].code}})
                      = SequencesFor(leaves, leaves[i].code, total)

\* The leaf drawn is on the third level of a tree of six leaves, one of three siblings at
\* the top and of two on each level below, and excluded from a group: one draw sequence
\* in twelve returns it, not one in six.
C20_Witness ==
    /\ IsCall("random_clinical_code") /\ last.kind = "Ok"
    /\ LET leaves == WalkSiblings(tree.categories, 1)
       IN  /\ Len(leaves) = 6
           /\ \E i \in 1..Len(leaves) :
                 /\ Resolved(store, <<last.ref>>)[1] = {leaves[i].code}
                 /\ leaves[i].siblings = 12
                 /\ \E j \in 1..Len(Leaves) :
                       Leaves[j].code = leaves[i].code /\ Leaves[j].excl # {}

(***************************************************************************)
(* C21  The tree is immutable after construction: no find_exact,           *)
(* codes_in_group, groups, random_clinical_code or                         *)
(* random_clinical_code_from_group call, successful or failed, changes a   *)
(* node, a sibling order, an exclude set or the declared groups.           *)
(***************************************************************************)
TreeQueries ==
    {"find_exact", "codes_in_group", "groups", "random_clinical_code",
     "random_clinical_code_from_group"}

SamePair == runs[1].global_seed = runs[2].global_seed /\ runs[1].id = runs[2].id

C30_MessageIdentifiesPair ==
    (pc = "rng" /\ runs[1].made /\ runs[2].made /\ ~SamePair) =>
        runs[1].message # runs[2].message

(***************************************************************************)
(* C23  Binary search agrees with a linear scan: for a sorted sibling list *)
(* and a code long enough to be compared with every sibling,               *)
(* locate_code_in_categories returns a category whose index compares Equal *)
(* to the code whenever some sibling's index does, and returns not-found   *)
(* only when no sibling's index compares Equal.                            *)
(***************************************************************************)
Searched == last.content.categories

EqualSiblings == {i \in 1..Len(Searched) : compare(Searched[i].index, last.code) = "Equal"}

C23_BinarySearchIsLinearScan ==
    (/\ IsCall("locate_code_in_categories")
     /\ Ascending(Searched)
     /\ \A i \in 1..Len(Searched) : compare(Searched[i].index, last.code) # "Panic") =>
        /\ last.kind \in {"Ok", "Err"}
        /\ EqualSiblings # {} => (last.kind = "Ok" /\ last.id \in EqualSiblings)
        /\ EqualSiblings = {} => last.kind = "Err"

(***************************************************************************)
(* C24  The ordering used to sort siblings is lexicographic on the pair    *)
(* (start, end), a single-code index counting as (start, start): whatever  *)
(* the variants of two indices, the one with the smaller start sorts       *)
(* first, and for equal starts the one with the smaller end.               *)
(***************************************************************************)
C24_OrderingOnStartEnd ==
    IsCall("cmp") =>
        last.kind = (IF str_cmp(last.index.a, last.other.a) # "Equal"
                     THEN str_cmp(last.index.a, last.other.a)
                     ELSE str_cmp(IndexEnd(last.index), IndexEnd(last.other)))

(***************************************************************************)
(* C25  Code normalisation: normalise_code lower-cases every letter,       *)
(* removes every whitespace character (leading, trailing and inner) and    *)
(* every literal dot, and keeps every other character, other punctuation   *)
(* included, in its original order; applying it to its result changes      *)
(* nothing.                                                                *)
(***************************************************************************)
AllChars == NormaliseChars \cup UNION {Range(code) : code \in TestCodes}

\* The lower-case letter of an upper-case ASCII letter is 32 bytes above it.
LowerCased(c) ==
    IF byte(c) >= 65 /\ byte(c) <= 90
    THEN CHOOSE d \in AllChars \cup {"b", "c"} : byte(d) = byte(c) + 32
    ELSE c

RECURSIVE Normalised(_)
Normalised(code) ==
    IF code = <<>> THEN <<>>
    ELSE (IF byte(code[1]) \in {9, 32, 46} THEN <<>> ELSE <<LowerCased(code[1])>>)
            \o Normalised(Tail(code))

C25_Normalisation ==
    IsCall("normalise_code") =>
        /\ last.out = Normalised(last.code)
        /\ normalise_code(last.out) = last.out

\* An upper-case letter, then inner whitespace, then punctuation other than a dot.
C25_Witness ==
    /\ IsCall("normalise_code")
    /\ \E i, j, k \in 1..Len(last.code) :
          /\ i < j /\ j < k
          /\ last.code[i] = "A" /\ last.code[j] \in {" ", "\t"} /\ last.code[k] = "|"
    /\ last.out = <<"a", "|">>

(***************************************************************************)
(* C26  Every query that returns an error leaves the store exactly as it   *)
(* was: a find_exact that finds nothing, a codes_in_group or               *)
(* random_clinical_code_from_group of an unknown group, and a              *)
(* random_clinical_code_from_group of an empty group add no entry and      *)
(* change no id.                                                           *)
(***************************************************************************)
C26_ErrorsLeaveStore ==
    [][(calls' = calls + 1 /\ last'.op \in TreeQueries /\ last'.kind = "Err") =>
          (store' = store /\ history' = history)]_vars

\* An empty group is sampled on a store that already holds codes.
C26_Witness ==
    /\ IsCall("random_clinical_code_from_group")
    /\ last.kind = "Err" /\ last.err = "Code group is empty"
    /\ Cardinality(store) > 1

(***************************************************************************)
(* C27  References agree across the operations that share a store: every   *)
(* reference a find_exact, codes_in_group, random_clinical_code or         *)
(* random_clinical_code_from_group call returns stands for one code, and   *)
(* it equals a reference returned in the same call or issued by any        *)
(* earlier call, of whichever operation, if and only if the two stand for  *)
(* the same (name, docs).                                                  *)
(***************************************************************************)
C27_ReferencesAgree ==
    [][(/\ calls' = calls + 1
        /\ last'.op \in {"find_exact", "codes_in_group", "random_clinical_code",
                         "random_clinical_code_from_group"}
        /\ last'.kind = "Ok") =>
          LET returned == IF last'.op = "codes_in_group" THEN last'.refs ELSE <<last'.ref>>
              codes == Resolved(store', returned)
          IN  /\ \A i \in 1..Len(returned) : Cardinality(codes[i]) = 1
              /\ \A i, j \in 1..Len(returned) :
                    returned[i] = returned[j] <=> codes[i] = codes[j]
              /\ \A i \in 1..Len(returned), k \in 1..Len(history) :
                    returned[i] = history[k].ref <=> codes[i] = {history[k].code}]_vars

\* A group is collected after another call issued the reference of a later leaf of it.
C27_Witness ==
    /\ IsCall("codes_in_group") /\ last.kind = "Ok"
    /\ calls = 2
    /\ \E i \in 2..Len(last.refs) : last.refs[i] = 0

(***************************************************************************)
(* C28  Store effect of the sampling operations: after a successful        *)
(* random_clinical_code_from_group of a group the store holds what it held *)
(* and every surviving leaf of the group, not only the code drawn;         *)
(* find_exact and random_clinical_code each keep what the store held and   *)
(* add at most one entry, the leaf they return.                            *)
(***************************************************************************)
StoredCodes(m) == {p.code : p \in m}

C28_StoreEffect ==
    [][(calls' = calls + 1) =>
          /\ (last'.op = "random_clinical_code_from_group" /\ last'.kind = "Ok") =>
                StoredCodes(store')
                    = StoredCodes(store)
                        \cup {Surviving(last'.group)[i].code
                                 : i \in 1..Len(Surviving(last'.group))}
          /\ last'.op \in {"find_exact", "random_clinical_code"} =>
                /\ store \subseteq store'
                /\ Cardinality(store' \ store) <= 1
                /\ \A p \in store' \ store : last'.kind = "Ok" /\ p.id = last'.ref]_vars

\* The first call draws from a group of several leaves: all of them are stored.
C28_Witness ==
    /\ IsCall("random_clinical_code_from_group") /\ last.kind = "Ok"
    /\ calls = 1
    /\ Len(Surviving(last.group)) >= 3
    /\ Cardinality(store) = Len(Surviving(last.group))

(***************************************************************************)
(* C29  codes_in_group returns one entry per surviving leaf, without       *)
(* de-duplication: the result is as long as the list of surviving leaves   *)
(* and its entries stand for their codes in order; two surviving leaves    *)
(* with the same (name, docs) give the same reference twice, and the       *)
(* store grows by the number of distinct codes it did not hold.            *)
(***************************************************************************)
C29_NoDeduplication ==
    [][(calls' = calls + 1 /\ last'.op = "codes_in_group" /\ last'.kind = "Ok") =>
          LET surviving == Surviving(last'.group)
              codes == {surviving[i].code : i \in 1..Len(surviving)}
          IN  /\ Len(last'.refs) = Len(surviving)
              /\ \A i \in 1..Len(surviving) :
                    {p.code : p \in {q \in store' : q.id = last'.refs[i]}} = {surviving[i].code}
              /\ \A i, j \in 1..Len(surviving) :
                    surviving[i].code = surviving[j].code => last'.refs[i] = last'.refs[j]
              /\ Cardinality(store')
                    = Cardinality(store) + Cardinality(codes \ {p.code : p \in store})]_vars

\* Two surviving leaves with the same name and docs: one reference, twice, one code stored.
C29_Witness ==
    /\ IsCall("codes_in_group") /\ last.kind = "Ok"
    /\ Len(Surviving(last.group)) = 2
    /\ Surviving(last.group)[1].code = Surviving(last.group)[2].code
    /\ Len(last.refs) = 2 /\ last.refs[1] = last.refs[2]
    /\ Cardinality(store) = 1

====
